---- MODULE Spec2Model ----
(***************************************************************************)
(* A model of tempo's TSDF as-of join (python/tempo/tsdf.py).              *)
(*                                                                         *)
(* A DataFrame is a set of column names and a bag of rows; a row is a      *)
(* function from column names to cells; a cell is NULL (the empty tuple)   *)
(* or <<v>>.  Spark gives a DataFrame no row order, so wherever the code   *)
(* sorts (the window of __getLastRightRow) rows with equal sort keys may   *)
(* come in any order: the model draws that order nondeterministically.     *)
(* Column order is not modelled (the code builds it from Python sets).     *)
(* Timestamps are integers; the overlap fraction is kept in percent so     *)
(* that the partition arithmetic stays exact.                              *)
(***************************************************************************)
EXTENDS Integers, Sequences, FiniteSets, Bags, TLC

VARIABLES
    left,        \* the receiver TSDF of asOfJoin (self)
    right,       \* the right-hand TSDF
    args,        \* the arguments of the asOfJoin call
    env,         \* what the call finds around it: Spark's sizeInBytes of both
                 \* DataFrames and whether the logger is enabled for WARNING
    pc,          \* "ready" before the call, "done" after it returned or raised
    strategy,    \* which private join method asOfJoin called ("none" if it raised before)
    result,      \* what the call returned (kind "tsdf") or raised (kind "error")
    df,          \* the last DataFrame the join method built (its local df)
    ops,         \* the Spark operations the call issued, in order
    warnings,    \* the bag of messages the call gave to logger.warning
    tables,      \* the TSDF objects in existence, in the order of their construction
    call         \* the last call of a public transformation on one of them: its
                 \* name, receiver, arguments, the receiver before it, what it returned

vars == <<left, right, args, env, pc, strategy, result, df, ops, warnings, tables, call>>

-----------------------------------------------------------------------------
(* Bounds of the model *)

MaxLeft == 1     \* rows in the left table
MaxRight == 2    \* rows in the right table

-----------------------------------------------------------------------------
(* Cells, rows, DataFrames *)

NULL == <<>>
NONE == "None"                  \* Python's None as a prefix; a tsPartitionVal is a
                                \* cell, NULL when the caller gave none

Some(v) == <<v>>
IsNull(c) == c = NULL

\* a row with column col set (added or replaced)
RowWith(row, col, cell) ==
    [c \in DOMAIN row \cup {col} |-> IF c = col THEN cell ELSE row[c]]

\* a row without the columns in dropped
RowDrop(row, dropped) == [c \in DOMAIN row \ dropped |-> row[c]]

\* a row with column existing renamed to new
RowRenamed(row, existing, new) ==
    IF existing \notin DOMAIN row THEN row
    ELSE [c \in (DOMAIN row \ {existing}) \cup {new} |->
             IF c = new THEN row[existing] ELSE row[c]]

\* the bag of f[r] for the rows r of bag B, with multiplicity; f is a function on
\* the rows of B
RECURSIVE MapBag(_, _)
MapBag(f, B) ==
    IF B = EmptyBag THEN EmptyBag
    ELSE LET r == CHOOSE x \in BagToSet(B) : TRUE
             rest == [x \in BagToSet(B) \ {r} |-> B[x]]
             one == [x \in {f[r]} |-> B[r]]
         IN one (+) MapBag(f, rest)

\* the rows of bag B that satisfy p, with multiplicity; p is a Boolean function
\* on the rows of B
FilterBag(p, B) == [x \in {y \in BagToSet(B) : p[y]} |-> B[x]]

\* the bag of the elements of a sequence
RECURSIVE SeqToBag(_)
SeqToBag(s) ==
    IF s = <<>> THEN EmptyBag ELSE SetToBag({Head(s)}) (+) SeqToBag(Tail(s))

\* all bags of at most n rows drawn from the set R
RECURSIVE BagsUpTo(_, _)
BagsUpTo(R, n) ==
    IF n = 0 THEN {EmptyBag}
    ELSE LET prev == BagsUpTo(R, n - 1)
         IN prev \cup {b (+) SetToBag({r}) : b \in prev, r \in R}

-----------------------------------------------------------------------------
(* TSDF: a DataFrame with a time-series schema *)

Range(s) == {s[i] : i \in DOMAIN s}

Ok(t) == [kind |-> "tsdf", tsdf |-> t]
\* an exception e raised in method at
Err(e, at) == [kind |-> "error", error |-> e, at |-> at]

\* TSSchema.validate: the declared time and series-id columns are columns of the DataFrame
validate(cols, ts_col, series_ids) ==
    ts_col \in cols /\ Range(series_ids) \subseteq cols

\* TSDF.__init__ with validate_schema=True
TSDF(cols, rows, ts_col, series_ids, ts_type) ==
    IF validate(cols, ts_col, series_ids)
    THEN Ok([cols |-> cols, rows |-> rows, ts_col |-> ts_col,
             series_ids |-> series_ids, ts_type |-> ts_type])
    ELSE Err("SchemaMismatchError", "TSDF.__init__")

\* TSDF.__withTransformedDF: same schema, new DataFrame, no validation
withTransformedDF(t, new_cols, new_rows) ==
    [t EXCEPT !.cols = new_cols, !.rows = new_rows]

structural_cols(t) == {t.ts_col} \cup Range(t.series_ids)

\* withColumn without the test of the name
withColumn_unchecked(t, colName, f) ==
    LET Set == [row \in BagToSet(t.rows) |-> RowWith(row, colName, f[row])]
    IN Ok(withTransformedDF(t, t.cols \cup {colName}, MapBag(Set, t.rows)))

\* TSDF.withColumn, the new column computed row by row by the function f
withColumn(t, colName, f) ==
    IF colName \in structural_cols(t)
    THEN Err("TSDFStructureChangeError", "withColumn")
    ELSE LET Set == [row \in BagToSet(t.rows) |-> RowWith(row, colName, f[row])]
         IN Ok(withTransformedDF(t, t.cols \cup {colName}, MapBag(Set, t.rows)))

\* the rename without a new index and new series ids: only the DataFrame changes
withColumnRenamed_df_only(t, existing, new) ==
    LET new_cols == IF existing \in t.cols
                    THEN (t.cols \ {existing}) \cup {new} ELSE t.cols
        Ren == [row \in BagToSet(t.rows) |-> RowRenamed(row, existing, new)]
    IN [t EXCEPT !.cols = new_cols, !.rows = MapBag(Ren, t.rows)]

\* TSIndex.renamed of a SimpleTSIndex: the index over the column of the new name
renamed(ts_col, new) == new

\* TSDF.withColumnRenamed: the TSDF it returns
withColumnRenamed(t, existing, new) ==
    LET new_ts_col == IF existing = t.ts_col THEN renamed(t.ts_col, new) ELSE t.ts_col
        new_series_ids ==
            IF existing \in Range(t.series_ids)
            THEN LET k == CHOOSE i \in DOMAIN t.series_ids :
                              /\ t.series_ids[i] = existing
                              /\ \A j \in 1..(i - 1) : t.series_ids[j] # existing
                 IN [t.series_ids EXCEPT ![k] = new]
            ELSE t.series_ids
        new_cols == IF existing \in t.cols
                    THEN (t.cols \ {existing}) \cup {new} ELSE t.cols
        Ren == [row \in BagToSet(t.rows) |-> RowRenamed(row, existing, new)]
    IN [cols |-> new_cols, rows |-> MapBag(Ren, t.rows), ts_col |-> new_ts_col,
        series_ids |-> new_series_ids, ts_type |-> t.ts_type]

-----------------------------------------------------------------------------
(* Helpers of the as-of join *)

\* f"{prefix}_{col}"
PrefixedName(prefix, col) == prefix \o "_" \o col

RECURSIVE renameAll(_, _, _)
renameAll(t, todo, prefix) ==
    IF todo = {} THEN t
    ELSE LET col == CHOOSE c \in todo : TRUE
         IN renameAll(withColumnRenamed(t, col, PrefixedName(prefix, col)),
                      todo \ {col}, prefix)

\* TSDF.__addPrefixToAllColumns (include_series_ids=False)
addPrefixToAllColumns(t, prefix) ==
    IF prefix = NONE \/ prefix = "" THEN t
    ELSE renameAll(t, t.cols \ Range(t.series_ids), prefix)

\* TSDF.__addMissingColumnsFrom
addMissingColumnsFrom(t, other) ==
    LET missing_cols == other.cols \ t.cols
        Pad == [row \in BagToSet(t.rows) |->
                   [c \in DOMAIN row \cup missing_cols |->
                       IF c \in DOMAIN row THEN row[c] ELSE NULL]]
    IN withTransformedDF(t, t.cols \cup missing_cols, MapBag(Pad, t.rows))

\* Fn.coalesce of two cells
coalesce(a, b) == IF IsNull(a) THEN b ELSE a

\* a TSDF whose time index is a SubSequenceTSIndex names its sub-sequence column;
\* the struct column of such an index is held flat, as the column of its timestamp
\* field and the column of its sub-sequence field
HasSubSeq(t) == "sub_seq_col" \in DOMAIN t

\* the columns of the time index of a TSDF
index_cols(t) == {t.ts_col} \cup (IF HasSubSeq(t) THEN {t.sub_seq_col} ELSE {})

\* the field sub_seq of the combined struct column
SubSeqField(combined_ts_col) == combined_ts_col \o ".sub_seq"

\* TSDF.__combineTSDF
combineTSDF(l, r, combined_ts_col) ==
    LET left_padded_tsdf == addMissingColumnsFrom(l, r)
        right_padded_tsdf == addMissingColumnsFrom(r, l)
        combined_rows == left_padded_tsdf.rows (+) right_padded_tsdf.rows
        is_left_subseq == HasSubSeq(l)
        is_right_subseq == HasSubSeq(r)
        WithTs == [row \in BagToSet(combined_rows) |->
                      RowWith(row, combined_ts_col, coalesce(row[l.ts_col], row[r.ts_col]))]
        SubSeqOf == [row \in BagToSet(combined_rows) |->
                      IF is_left_subseq
                      THEN coalesce(row[l.sub_seq_col],
                                    IF is_right_subseq THEN row[r.sub_seq_col] ELSE NULL)
                      ELSE coalesce(row[r.sub_seq_col], NULL)]
        WithStruct == [row \in BagToSet(combined_rows) |->
                          RowWith(WithTs[row], SubSeqField(combined_ts_col), SubSeqOf[row])]
    IN IF is_left_subseq \/ is_right_subseq
       THEN LET made == TSDF(l.cols \cup r.cols
                                \cup {combined_ts_col, SubSeqField(combined_ts_col)},
                             MapBag(WithStruct, combined_rows),
                             combined_ts_col, l.series_ids, l.ts_type)
            IN IF made.kind = "error" THEN made
               ELSE Ok([c \in DOMAIN made.tsdf \cup {"sub_seq_col"} |->
                           IF c = "sub_seq_col" THEN SubSeqField(combined_ts_col)
                           ELSE made.tsdf[c]])
       ELSE TSDF(l.cols \cup r.cols \cup {combined_ts_col}, MapBag(WithTs, combined_rows),
                 combined_ts_col, l.series_ids, l.ts_type)

-----------------------------------------------------------------------------
(* The carry-forward window of __getLastRightRow *)

\* the indicator with its two values exchanged
rec_ind_swapped(row, left_ts_col) ==
    IF ~IsNull(row[left_ts_col]) THEN Some(-1) ELSE Some(1)

\* the left_ts_null_indicator_col of a row: 1 on a row with a left timestamp, else -1
rec_ind(row, left_ts_col) ==
    IF ~IsNull(row[left_ts_col]) THEN Some(1) ELSE Some(-1)

\* TSIndex.orderByExpr(): the time column, ascending, and after it the sub-sequence
\* column of an index that has one
orderByExpr(t) ==
    IF HasSubSeq(t) THEN <<t.ts_col, t.sub_seq_col>> ELSE <<t.ts_col>>

\* the ordering of the index alone, without the indicator
order_by_index_only(t) == orderByExpr(t)

\* the custom ordering: the indicator second; when the index gives a list, the
\* list is first replaced by its head and the indicator, then extended by what
\* follows the head in the new list
order_by_expr(t) ==
    IF Len(orderByExpr(t)) = 1
    THEN <<orderByExpr(t)[1], "rec_ind">>
    ELSE LET indexed == <<orderByExpr(t)[1], "rec_ind">>
         IN indexed \o Tail(indexed)

\* ascending order of two cells, nulls first
CellLE(a, b) == IsNull(a) \/ (~IsNull(b) /\ a[1] <= b[1])

RECURSIVE KeyLE(_, _, _)
KeyLE(r1, r2, keys) ==
    IF keys = <<>> THEN TRUE
    ELSE IF r1[Head(keys)] = r2[Head(keys)] THEN KeyLE(r1, r2, Tail(keys))
    ELSE CellLE(r1[Head(keys)], r2[Head(keys)])

\* every order the sort may give the rows of bag B: rows with equal keys in any order
RECURSIVE Orders(_, _)
Orders(B, keys) ==
    IF B = EmptyBag THEN {<<>>}
    ELSE LET S == BagToSet(B)
             mins == {r \in S : \A q \in S : KeyLE(r, q, keys)}
         IN UNION {{<<r>> \o o : o \in Orders(B (-) SetToBag({r}), keys)} : r \in mins}

\* Window.partitionBy: the cells of a row in the partitioning columns
PartitionKey(row, by) == [i \in DOMAIN by |-> row[by[i]]]

\* Fn.last(col, True) over rows 1..i of the ordered partition s
RECURSIVE last_ignore_nulls(_, _, _)
last_ignore_nulls(s, i, col) ==
    IF i = 0 THEN NULL
    ELSE IF IsNull(s[i][col]) THEN last_ignore_nulls(s, i - 1, col)
    ELSE s[i][col]

\* the last value of col that is not null, whichever side its row is from
RECURSIVE last_right_non_null(_, _, _)
last_right_non_null(s, i, col) ==
    IF i = 0 THEN NULL
    ELSE IF ~IsNull(s[i][col]) THEN s[i][col]
    ELSE last_right_non_null(s, i - 1, col)

\* Fn.last(when(rec_ind == -1, struct(col)), True)[col] over rows 1..i of s
RECURSIVE last_right_struct(_, _, _)
last_right_struct(s, i, col) ==
    IF i = 0 THEN NULL
    ELSE IF s[i]["rec_ind"] = Some(-1) THEN s[i][col]
    ELSE last_right_struct(s, i - 1, col)

\* Fn.count(col) over rows 1..i of s, col already carried forward
non_null_ct(s, i, col) ==
    Cardinality({j \in 1..i : ~IsNull(last_ignore_nulls(s, j, col))})

CountCol(col) == "non_null_ct" \o col

\* row i of the ordered partition s after the reduce over right_cols
WindowRow(s, i, right_cols, ignoreNulls, tsPartitionVal) ==
    LET counted == IF ignoreNulls /\ ~IsNull(tsPartitionVal)
                   THEN {CountCol(c) : c \in right_cols} ELSE {}
    IN [c \in DOMAIN s[i] \cup counted |->
          IF c \in right_cols
          THEN IF ignoreNulls THEN last_ignore_nulls(s, i, c)
               ELSE last_right_struct(s, i, c)
          ELSE IF c \in DOMAIN s[i] THEN s[i][c]
          ELSE LET col == CHOOSE rc \in right_cols : CountCol(rc) = c
               IN Some(non_null_ct(s, i, col))]

\* the rows of one ordered partition after the window
WindowPartition(s, right_cols, ignoreNulls, tsPartitionVal) ==
    SeqToBag([i \in DOMAIN s |-> WindowRow(s, i, right_cols, ignoreNulls, tsPartitionVal)])

\* every DataFrame the window may give: one order per partition
RECURSIVE WindowOutcomes(_, _, _, _, _, _, _)
WindowOutcomes(rows, parts, by, keys, right_cols, ignoreNulls, tsPartitionVal) ==
    IF parts = {} THEN {EmptyBag}
    ELSE LET p == CHOOSE k \in parts : TRUE
             InPart == [row \in BagToSet(rows) |-> PartitionKey(row, by) = p]
             here == {WindowPartition(s, right_cols, ignoreNulls, tsPartitionVal) :
                         s \in Orders(FilterBag(InPart, rows), keys)}
         IN {a (+) b : a \in here,
                       b \in WindowOutcomes(rows, parts \ {p}, by, keys, right_cols,
                                            ignoreNulls, tsPartitionVal)}

-----------------------------------------------------------------------------
(* __getLastRightRow and __getTimePartitions *)

NoDF == [cols |-> {}, rows |-> EmptyBag]

\* the smallest cell of column col in a DataFrame (None when it has no rows)
MinCell(rows, col) ==
    IF rows = EmptyBag THEN NULL
    ELSE LET S == {r[col] : r \in BagToSet(rows)}
         IN CHOOSE m \in S : \A q \in S : CellLE(m, q)

\* the part of __getLastRightRow after the window: self is the unreduced TSDF,
\* windowed its rows after the reduce
lastRightRowResult(self, windowed, left_ts_col, right_cols, tsPartitionVal, ignoreNulls, suppress_null_warning, warning_enabled) ==
    LET IsLeft == [row \in BagToSet(windowed) |-> ~IsNull(row[left_ts_col])]
        Drop1 == [row \in BagToSet(windowed) |->
                    RowDrop(row, index_cols(self) \cup {"rec_ind"})]
        kept == MapBag(Drop1, FilterBag(IsLeft, windowed))
        count_cols == IF ~IsNull(tsPartitionVal) /\ ignoreNulls
                      THEN {CountCol(c) : c \in right_cols} ELSE {}
        checked == IF ~suppress_null_warning /\ warning_enabled THEN count_cols ELSE {}
        blank == {c \in right_cols :
                     CountCol(c) \in checked /\ MinCell(kept, CountCol(c)) = Some(0)}
        Drop2 == [row \in BagToSet(kept) |-> RowDrop(row, count_cols)]
        out_cols == self.cols \ (index_cols(self) \cup {"rec_ind"})
        out_rows == MapBag(Drop2, kept)
    IN [res |-> TSDF(out_cols, out_rows, left_ts_col, self.series_ids, self.ts_type),
        df |-> [cols |-> out_cols, rows |-> out_rows],
        ops |-> <<"window", "filter", "drop">>
                \o [i \in 1..Cardinality(checked) |-> "agg.collect"]
                \o <<"select">>,
        warnings |-> SetToBag({"no values in lookback window: " \o c : c \in blank})]

\* TSDF.__getLastRightRow: every outcome it may have
getLastRightRow(self, left_ts_col, right_cols, tsPartitionVal, ignoreNulls, suppress_null_warning, warning_enabled) ==
    LET Ind == [row \in BagToSet(self.rows) |-> rec_ind(row, left_ts_col)]
        unreduced_tsdf == withColumn(self, "rec_ind", Ind).tsdf
        keys == order_by_expr(unreduced_tsdf)
        by == unreduced_tsdf.series_ids
        parts == {PartitionKey(row, by) : row \in BagToSet(unreduced_tsdf.rows)}
        shown == <<"withColumn", "orderBy.show">>
    IN IF ~ignoreNulls /\ ~IsNull(tsPartitionVal)
       THEN {[res |-> Err("ValueError", "__getLastRightRow"),
              df |-> [cols |-> unreduced_tsdf.cols, rows |-> unreduced_tsdf.rows],
              ops |-> shown, warnings |-> EmptyBag]}
       ELSE {LET o == lastRightRowResult(unreduced_tsdf, w, left_ts_col, right_cols,
                          tsPartitionVal, ignoreNulls, suppress_null_warning,
                          warning_enabled)
             IN [o EXCEPT !.ops = shown \o @] :
                w \in WindowOutcomes(unreduced_tsdf.rows, parts, by, keys, right_cols,
                                     ignoreNulls, tsPartitionVal)}

\* cast("integer") of the quotient a / b, b > 0: the fraction is cut off
IntegerCast(a, b) == IF a >= 0 THEN a \div b ELSE -((-a) \div b)

\* the ts_partition of a timestamp
ts_partition(ts, tsPartitionVal) == tsPartitionVal * IntegerCast(ts, tsPartitionVal)

\* partition_remainder >= 1 - fraction, the fraction in percent
in_remainder(ts, tsPartitionVal, fraction) ==
    (ts - ts_partition(ts, tsPartitionVal)) * 100 >= (100 - fraction) * tsPartitionVal

\* TSDF.__getTimePartitions
getTimePartitions(self, tsPartitionVal, fraction) ==
    LET Part(row) == ts_partition(row[self.ts_col][1], tsPartitionVal)
        Original == [row \in BagToSet(self.rows) |->
                        RowWith(RowWith(row, "ts_partition", Some(Part(row))),
                                "is_original", Some(1))]
        InRemainder == [row \in BagToSet(self.rows) |->
                           in_remainder(row[self.ts_col][1], tsPartitionVal, fraction)]
        Moved == [row \in BagToSet(self.rows) |->
                     RowWith(RowWith(row, "ts_partition", Some(Part(row) + tsPartitionVal)),
                             "is_original", Some(0))]
        partition_df == MapBag(Original, self.rows)
        remainder_df == MapBag(Moved, FilterBag(InRemainder, self.rows))
    IN TSDF(self.cols \cup {"ts_partition", "is_original"},
            partition_df (+) remainder_df,
            self.ts_col, self.series_ids \o <<"ts_partition">>, self.ts_type)

-----------------------------------------------------------------------------
(* The three join methods *)

Repeat(op, n) == [i \in 1..n |-> op]

\* the renames and the null padding both methods issue before the union
PrefixOps(t, prefix) ==
    IF prefix = NONE \/ prefix = "" THEN <<>>
    ELSE Repeat("withColumnRenamed", Cardinality(t.cols \ Range(t.series_ids)))

CombineOps(l, r) ==
    Repeat("withColumn", Cardinality(r.cols \ l.cols) + Cardinality(l.cols \ r.cols))
    \o <<"unionByName", "withColumn", "select">>

Raised(err, issued, logged) ==
    [res |-> err, df |-> NoDF, ops |-> issued, warnings |-> logged]

\* TSDF.__standardAsOfJoin: every outcome it may have
standardAsOfJoin(self, rightT, left_prefix, right_prefix, skipNulls, suppress_null_warning, warning_enabled) ==
    LET left_prefixed_tsdf == addPrefixToAllColumns(self, left_prefix)
        right_prefixed_tsdf == addPrefixToAllColumns(rightT, right_prefix)
        combined == combineTSDF(left_prefixed_tsdf, right_prefixed_tsdf, "combined_ts")
        before == PrefixOps(self, left_prefix) \o PrefixOps(rightT, right_prefix)
                  \o CombineOps(left_prefixed_tsdf, right_prefixed_tsdf)
    IN IF combined.kind = "error" THEN {Raised(combined, before, EmptyBag)}
       ELSE LET combined_tsdf == combined.tsdf
                right_cols == right_prefixed_tsdf.cols \ Range(combined_tsdf.series_ids)
            IN {[o EXCEPT !.ops = before \o @] :
                   o \in getLastRightRow(combined_tsdf, left_prefixed_tsdf.ts_col,
                                         right_cols, NULL, skipNulls,
                                         suppress_null_warning, warning_enabled)}

SkewWarning == "You are using the skew version of the AS OF join"

\* TSDF.__skewAsOfJoin: every outcome it may have
skewAsOfJoin(self, rightT, left_prefix, right_prefix, tsPartitionVal, fraction, skipNulls, suppress_null_warning, warning_enabled) ==
    LET logged == SetToBag({SkewWarning})
        left_prefixed_tsdf == addPrefixToAllColumns(self, left_prefix)
        right_prefixed_tsdf == addPrefixToAllColumns(rightT, right_prefix)
        combined == combineTSDF(left_prefixed_tsdf, right_prefixed_tsdf, "combined_ts")
        before == PrefixOps(self, left_prefix) \o PrefixOps(rightT, right_prefix)
                  \o CombineOps(left_prefixed_tsdf, right_prefixed_tsdf)
    IN IF combined.kind = "error" THEN {Raised(combined, before, logged)}
       ELSE
       LET combined_tsdf == combined.tsdf
           tsPartitionDF == getTimePartitions(combined_tsdf, tsPartitionVal[1], fraction)
           parted == before \o <<"withColumn", "cache", "filter", "union", "drop">>
           right_cols == right_prefixed_tsdf.cols \ Range(combined_tsdf.series_ids)
       IN IF tsPartitionDF.kind = "error"
          THEN {Raised(tsPartitionDF, parted, logged)}
          ELSE
          {IF o.res.kind = "error"
           THEN [o EXCEPT !.ops = parted \o @, !.warnings = logged (+) @]
           ELSE LET asofDF == o.res.tsdf
                    IsOriginal == [row \in BagToSet(asofDF.rows) |->
                                      row["is_original"] = Some(1)]
                    Drop == [row \in BagToSet(asofDF.rows) |->
                                RowDrop(row, {"ts_partition", "is_original"})]
                    out_cols == asofDF.cols \ {"ts_partition", "is_original"}
                    out_rows == MapBag(Drop, FilterBag(IsOriginal, asofDF.rows))
                IN [res |-> TSDF(out_cols, out_rows, asofDF.ts_col,
                                 asofDF.series_ids, asofDF.ts_type),
                    df |-> [cols |-> out_cols, rows |-> out_rows],
                    ops |-> parted \o o.ops \o <<"filter", "drop">>,
                    warnings |-> logged (+) o.warnings] :
             o \in getLastRightRow(tsPartitionDF.tsdf, left_prefixed_tsdf.ts_col,
                                   right_cols, tsPartitionVal, skipNulls,
                                   suppress_null_warning, warning_enabled)}

\* a parameter the caller left out and that has no default
MISSING == "<missing>"

\* TSDF.__broadcastAsOfJoin: it needs both prefixes, and then reads ts_col of the
\* dict that __prefixedColumnMapping returned
broadcastAsOfJoin(self, rightT, left_prefix, right_prefix) ==
    IF left_prefix = MISSING \/ right_prefix = MISSING
    THEN {Raised(Err("TypeError", "__broadcastAsOfJoin"), <<>>, EmptyBag)}
    ELSE {Raised(Err("AttributeError", "__broadcastAsOfJoin"), <<>>, EmptyBag)}

-----------------------------------------------------------------------------
(* asOfJoin *)

Min(a, b) == IF a <= b THEN a ELSE b

\* TSDF.__hasSameSeriesIDs: TRUE when it raises; zip stops at the shorter list
hasSameSeriesIDs(self, tsdf_right) ==
    \E i \in 1..Min(Len(self.series_ids), Len(tsdf_right.series_ids)) :
        self.series_ids[i] # tsdf_right.series_ids[i]

\* TSDF.__validateTsColMatch: TRUE when it raises
validateTsColMatch(self, right_tsdf) == self.ts_type # right_tsdf.ts_type

bytes_threshold == 30 * 1024 * 1024

\* the fraction __skewAsOfJoin takes when its caller passes none, in percent
SkewDefaultFraction == 10

\* the fraction asOfJoin takes when its caller passes none, in percent
AsOfDefaultFraction == 50

WithStrategy(name, outcomes, before) ==
    {[strategy |-> name, res |-> o.res, df |-> o.df, ops |-> before \o o.ops,
      warnings |-> o.warnings] : o \in outcomes}

\* TSDF.asOfJoin: every outcome the call may have
asOfJoin(self, rightT, a, e) ==
    IF hasSameSeriesIDs(self, rightT)
    THEN WithStrategy("none",
                      {Raised(Err("ValueError", "__hasSameSeriesIDs"), <<>>, EmptyBag)},
                      <<>>)
    ELSE IF validateTsColMatch(self, rightT)
    THEN WithStrategy("none",
                      {Raised(Err("ValueError", "__validateTsColMatch"), <<>>, EmptyBag)},
                      <<"select.dtypes", "select.dtypes">>)
    ELSE
    LET sized == <<"select.dtypes", "select.dtypes", "explain.collect", "explain.collect">>
    IN IF a.sql_join_opt /\ (e.left_bytes < bytes_threshold
                             \/ e.right_bytes < bytes_threshold)
       THEN WithStrategy("broadcast",
                         broadcastAsOfJoin(self, rightT, MISSING, MISSING),
                         sized \o <<"conf.set">>)
       ELSE IF IsNull(a.tsPartitionVal)
       THEN WithStrategy("standard",
                         standardAsOfJoin(self, rightT, a.left_prefix, a.right_prefix,
                                          a.skipNulls, a.suppress_null_warning,
                                          e.warning_enabled),
                         sized)
       ELSE WithStrategy("skew",
                         skewAsOfJoin(self, rightT, a.left_prefix, a.right_prefix,
                                      a.tsPartitionVal, SkewDefaultFraction,
                                      a.skipNulls, a.suppress_null_warning,
                                      e.warning_enabled),
                         sized)

\* one call left.asOfJoin(right, **args)
AsOfJoin ==
    /\ pc = "ready"
    /\ \E o \in asOfJoin(left, right, args, env) :
          /\ strategy' = o.strategy
          /\ result' = o.res
          /\ df' = o.df
          /\ ops' = o.ops
          /\ warnings' = o.warnings
    /\ pc' = "done"
    /\ UNCHANGED <<left, right, args, env, tables, call>>

-----------------------------------------------------------------------------
(* Inputs *)

Sids == {"s1", "s2"}
Times == 1..3
LeftValues == {Some("p")}
RightValues == {NULL, Some("a"), Some("b")}

RowsOver(times, values) ==
    {[sid |-> Some(s), ts |-> Some(t), x |-> v] : s \in Sids, t \in times, v \in values}

\* a TSDF over columns sid, ts, x with series id sid and time column ts
Table(rows) ==
    [cols |-> {"sid", "ts", "x"}, rows |-> rows, ts_col |-> "ts",
     series_ids |-> <<"sid">>, ts_type |-> "bigint"]

DefaultArgs ==
    [left_prefix |-> NONE, right_prefix |-> "right", tsPartitionVal |-> NULL,
     fraction |-> AsOfDefaultFraction, skipNulls |-> TRUE, sql_join_opt |-> FALSE,
     suppress_null_warning |-> FALSE]

LargeEnv ==
    [left_bytes |-> bytes_threshold, right_bytes |-> bytes_threshold,
     warning_enabled |-> TRUE]

\* no transformation has been called yet
NoCall == [op |-> "none"]

NotCalled ==
    /\ pc = "ready"
    /\ strategy = "none"
    /\ result = [kind |-> "none"]
    /\ df = NoDF
    /\ ops = <<>>
    /\ warnings = EmptyBag
    /\ tables = <<>>
    /\ call = NoCall

LeftTables == {Table(b) : b \in BagsUpTo(RowsOver(Times, LeftValues), MaxLeft)}
RightTables == {Table(b) : b \in BagsUpTo(RowsOver(Times, RightValues), MaxRight)}

\* the standard join of two tables of one shape, with and without null skipping
Init ==
    /\ left \in LeftTables
    /\ right \in RightTables
    /\ args \in {[DefaultArgs EXCEPT !.skipNulls = b] : b \in BOOLEAN}
    /\ env = LargeEnv
    /\ NotCalled

Next == AsOfJoin

Spec == Init /\ [][Next]_vars

MaxDup == 2      \* left rows that share one series id and timestamp

DupValues == {NULL, Some("p")}

\* left tables of 2..MaxDup rows, all of one series id and timestamp
DupTables ==
    {Table(b) : b \in {d \in BagsUpTo(RowsOver(Times, DupValues), MaxDup) :
                          /\ BagCardinality(d) >= 2
                          /\ \A r1, r2 \in BagToSet(d) :
                                r1["sid"] = r2["sid"] /\ r1["ts"] = r2["ts"]}}

\* the standard join of a left table of duplicates
InitDup ==
    /\ left \in DupTables
    /\ right \in RightTables
    /\ args \in {[DefaultArgs EXCEPT !.skipNulls = b] : b \in BOOLEAN}
    /\ env = LargeEnv
    /\ NotCalled

SpecDup == InitDup /\ [][Next]_vars

MaxSelf == 2     \* rows of a table joined to itself

SelfTables == {Table(b) : b \in BagsUpTo(RowsOver(Times, RightValues), MaxSelf)}

\* the standard join of a table to itself
InitSelf ==
    /\ left \in SelfTables
    /\ right = left
    /\ args \in {[DefaultArgs EXCEPT !.skipNulls = b, !.left_prefix = lp] :
                    b \in BOOLEAN, lp \in {NONE, "left"}}
    /\ env = LargeEnv
    /\ NotCalled

SpecSelf == InitSelf /\ [][Next]_vars

\* timestamps on both sides of the boundary 10 of brackets of width 10
SkewTimes == {8, 9, 10, 11}
Widths == {10}

SkewLeftTables == {Table(b) : b \in BagsUpTo(RowsOver(SkewTimes, LeftValues), MaxLeft)}
SkewRightTables == {Table(b) : b \in BagsUpTo(RowsOver(SkewTimes, RightValues), MaxRight)}

\* the plan sizes: both at the threshold, or one of them below it
Envs ==
    {LargeEnv, [LargeEnv EXCEPT !.left_bytes = bytes_threshold - 1],
     [LargeEnv EXCEPT !.right_bytes = bytes_threshold - 1]}

\* calls that reach every join method
InitAll ==
    /\ left \in SkewLeftTables
    /\ right \in SkewRightTables
    /\ args \in {[DefaultArgs EXCEPT !.skipNulls = b, !.sql_join_opt = q,
                                     !.tsPartitionVal = w] :
                    b \in BOOLEAN, q \in BOOLEAN,
                    w \in {NULL} \cup {Some(n) : n \in Widths}}
    /\ env \in Envs
    /\ NotCalled

SpecAll == InitAll /\ [][Next]_vars

\* overlap fractions in percent: inside the open interval (0, 1), its two ends,
\* below it and above it
Fractions == {-10, 0, 10, 50, 90, 100, 150}

\* skew joins with every overlap fraction
InitFrac ==
    /\ left \in SkewLeftTables
    /\ right \in SkewRightTables
    /\ args \in {[DefaultArgs EXCEPT !.tsPartitionVal = Some(w), !.fraction = f] :
                    w \in Widths, f \in Fractions}
    /\ env = LargeEnv
    /\ NotCalled

SpecFrac == InitFrac /\ [][Next]_vars

\* a prefix left out, empty or given
LeftPrefixes == {NONE, "", "left"}
RightPrefixes == {NONE, "", "right"}

\* standard joins of two tables with the same column names, under every pair of prefixes
InitPrefix ==
    /\ left \in LeftTables
    /\ right \in RightTables
    /\ args \in {[DefaultArgs EXCEPT !.left_prefix = lp, !.right_prefix = rp, !.skipNulls = b] :
                    lp \in LeftPrefixes, rp \in RightPrefixes, b \in BOOLEAN}
    /\ env = LargeEnv
    /\ NotCalled

SpecPrefix == InitPrefix /\ [][Next]_vars

IdLists == {<<>>, <<"sid">>, <<"grp">>, <<"sid", "grp">>, <<"grp", "sid">>}

IdRows ==
    {[sid |-> Some("s1"), grp |-> Some(g), ts |-> Some(t), x |-> Some("a")] :
        g \in {"g1", "g2"}, t \in {1, 2}}

\* TSDFs over columns sid, grp, ts, x of at most one row, with any of the series-id
\* lists and either type of time column
IdTables ==
    {[cols |-> {"sid", "grp", "ts", "x"}, rows |-> b, ts_col |-> "ts",
      series_ids |-> ids, ts_type |-> ty] :
        b \in BagsUpTo(IdRows, 1), ids \in IdLists, ty \in {"bigint", "timestamp"}}

\* calls on tables whose series ids or time column types may differ
InitIds ==
    /\ left \in IdTables
    /\ right \in IdTables
    /\ args = DefaultArgs
    /\ env = LargeEnv
    /\ NotCalled

SpecIds == InitIds /\ [][Next]_vars

-----------------------------------------------------------------------------
(* The public transformations of a TSDF *)

\* how many TSDF objects come into existence: calls are made while there is room
\* for what they return
MaxTables == 3

\* select without the test of the structural columns
select_unchecked(t, cols) ==
    IF cols \subseteq t.cols
    THEN LET Proj == [row \in BagToSet(t.rows) |-> [c \in cols |-> row[c]]]
         IN Ok(withTransformedDF(t, cols, MapBag(Proj, t.rows)))
    ELSE Err("AnalysisException", "select")

\* TSDF.select(*cols); Spark raises when a selected name is no column
select(t, cols) ==
    IF structural_cols(t) \subseteq cols
    THEN IF cols \subseteq t.cols
         THEN LET Proj == [row \in BagToSet(t.rows) |-> [c \in cols |-> row[c]]]
              IN Ok(withTransformedDF(t, cols, MapBag(Proj, t.rows)))
         ELSE Err("AnalysisException", "select")
    ELSE Err("TSDFStructureChangeError", "select")

\* the comparison of a slice expression
Compare(op, a, b) ==
    CASE op = "==" -> a = b
      [] op = "<" -> a < b
      [] op = "<=" -> a <= b
      [] op = ">" -> a > b
      [] op = ">=" -> a >= b

\* TSDF.__slice: the rows where "{self.ts_col} {op} {target_ts}" is true
slice(t, op, target_ts) ==
    IF t.ts_col \in t.cols
    THEN LET Keep == [row \in BagToSet(t.rows) |->
                         ~IsNull(row[t.ts_col]) /\ Compare(op, row[t.ts_col][1], target_ts)]
         IN Ok(withTransformedDF(t, t.cols, FilterBag(Keep, t.rows)))
    ELSE Err("AnalysisException", "__slice")

\* TSDF.between
between(t, start_ts, end_ts, inclusive) ==
    LET lower == slice(t, IF inclusive THEN ">=" ELSE ">", start_ts)
    IN IF lower.kind = "error" THEN lower
       ELSE slice(lower.tsdf, IF inclusive THEN "<=" ELSE "<", end_ts)

Reverse(s) == [i \in DOMAIN s |-> s[Len(s) + 1 - i]]

\* every DataFrame of the first n rows of each partition, in window order
RECURSIVE TopOutcomes(_, _, _, _, _, _)
TopOutcomes(rows, parts, by, keys, reverse, n) ==
    IF parts = {} THEN {EmptyBag}
    ELSE LET p == CHOOSE k \in parts : TRUE
             InPart == [row \in BagToSet(rows) |-> PartitionKey(row, by) = p]
             here == {SeqToBag(SubSeq(IF reverse THEN Reverse(s) ELSE s, 1, Min(n, Len(s)))) :
                         s \in Orders(FilterBag(InPart, rows), keys)}
         IN {a (+) b : a \in here,
                       b \in TopOutcomes(rows, parts \ {p}, by, keys, reverse, n)}

\* latest and earliest without the reversal of the window
top_rows_forward(t, reverse, n) ==
    IF structural_cols(t) \subseteq t.cols
    THEN LET by == t.series_ids
             parts == {PartitionKey(row, by) : row \in BagToSet(t.rows)}
         IN {Ok(withTransformedDF(t, t.cols, b)) :
                b \in TopOutcomes(t.rows, parts, by, orderByExpr(t), FALSE, n)}
    ELSE {Err("AnalysisException", "__top_rows_per_series")}

\* TSDF.earliest (reverse = FALSE) and TSDF.latest (reverse = TRUE): every outcome;
\* Spark raises when the window names a column the DataFrame does not have
top_rows_per_series(t, reverse, n) ==
    IF structural_cols(t) \subseteq t.cols
    THEN LET by == t.series_ids
             parts == {PartitionKey(row, by) : row \in BagToSet(t.rows)}
         IN {Ok(withTransformedDF(t, t.cols, b)) :
                b \in TopOutcomes(t.rows, parts, by, orderByExpr(t), reverse, n)}
    ELSE {Err("AnalysisException", "__top_rows_per_series")}

\* TSDF.union of two DataFrames with the same columns in the same order; Spark raises
\* when the numbers of columns differ
union(t, other) ==
    IF Cardinality(t.cols) = Cardinality(other.cols)
    THEN Ok(withTransformedDF(t, t.cols, t.rows (+) other.rows))
    ELSE Err("AnalysisException", "union")

\* a row with the columns cols, null where it had none
PadRow(row, cols) == [c \in cols |-> IF c \in DOMAIN row THEN row[c] ELSE NULL]

\* TSDF.unionByName
unionByName(t, other, allowMissingColumns) ==
    IF other.cols = t.cols \/ allowMissingColumns
    THEN LET all == t.cols \cup other.cols
             both == t.rows (+) other.rows
             Pad == [row \in BagToSet(both) |-> PadRow(row, all)]
         IN Ok(withTransformedDF(t, all, MapBag(Pad, both)))
    ELSE Err("AnalysisException", "unionByName")

\* the receiver after TSDF.withColumnRenamed: new_series_ids is the receiver's own
\* list, and the new name is written into it
withColumnRenamed_self(t, existing, new) ==
    [t EXCEPT !.series_ids = withColumnRenamed(t, existing, new).series_ids]

\* what TSDF.withColumnRenamed returns: TSDF(new_df, ts_schema=new_schema) validates
withColumnRenamed_result(t, existing, new) ==
    LET renamed_tsdf == withColumnRenamed(t, existing, new)
    IN TSDF(renamed_tsdf.cols, renamed_tsdf.rows, renamed_tsdf.ts_col,
            renamed_tsdf.series_ids, renamed_tsdf.ts_type)

\* a call of op on tables[i] with arguments a returned or raised res and left the
\* receiver as after; a returned TSDF is one more object
Called(op, i, a, after, res) ==
    /\ pc = "tables"
    /\ Len(tables) < MaxTables
    /\ LET now == [tables EXCEPT ![i] = after]
       IN tables' = IF res.kind = "tsdf" THEN Append(now, res.tsdf) ELSE now
    /\ call' = [op |-> op, self |-> i, args |-> a, before |-> tables[i], result |-> res]
    /\ UNCHANGED <<left, right, args, env, pc, strategy, result, df, ops, warnings>>

\* the names calls are made with: the columns of the first table and two new names
Names == {"sid", "grp", "ts", "x"}
NewNames == {"k", "m"}
Instants == {1, 2}
SliceOps == {"==", "<", "<=", ">", ">="}

\* the column lists select is called with: all columns, all but one that is
\* structural in some table, and the time column with the observation
SelectLists == {Names, Names \ {"grp"}, Names \ {"ts"}, {"ts", "x"}}

Select ==
    \E i \in DOMAIN tables, cols \in SelectLists :
        Called("select", i, [cols |-> cols], tables[i], select(tables[i], cols))

\* withColumn(colName, lit(0))
WithColumn ==
    \E i \in DOMAIN tables, colName \in {"ts", "grp", "k"} :
        LET Zero == [row \in BagToSet(tables[i].rows) |-> Some(0)]
        IN Called("withColumn", i, [colName |-> colName], tables[i],
                  withColumn(tables[i], colName, Zero))

\* withColumnRenamed(existing, new) to a name the DataFrame does not have yet
WithColumnRenamed ==
    \E i \in DOMAIN tables, existing \in {"ts", "sid", "grp", "k"}, new \in NewNames :
        /\ new \notin tables[i].cols
        /\ new # existing
        /\ Called("withColumnRenamed", i, [existing |-> existing, new |-> new],
                  withColumnRenamed_self(tables[i], existing, new),
                  withColumnRenamed_result(tables[i], existing, new))

\* union with a table of the same columns or of another number of columns
Union ==
    \E i, j \in DOMAIN tables :
        /\ tables[j].cols = tables[i].cols
           \/ Cardinality(tables[j].cols) # Cardinality(tables[i].cols)
        /\ Called("union", i, [other |-> j], tables[i], union(tables[i], tables[j]))

UnionByName ==
    \E i, j \in DOMAIN tables, allowMissingColumns \in BOOLEAN :
        Called("unionByName", i, [other |-> j, allowMissingColumns |-> allowMissingColumns],
               tables[i], unionByName(tables[i], tables[j], allowMissingColumns))

\* at, before, atOrBefore, after, atOrAfter
Slice ==
    \E i \in DOMAIN tables, op \in SliceOps, ts \in {2} :
        Called("slice", i, [op |-> op, ts |-> ts], tables[i], slice(tables[i], op, ts))

Between ==
    \E i \in DOMAIN tables, start_ts \in {1}, end_ts \in {2}, inclusive \in BOOLEAN :
        Called("between", i,
               [start_ts |-> start_ts, end_ts |-> end_ts, inclusive |-> inclusive],
               tables[i], between(tables[i], start_ts, end_ts, inclusive))

\* earliest(1) and latest(1)
TopRows ==
    \E i \in DOMAIN tables, reverse \in BOOLEAN :
        \E res \in top_rows_per_series(tables[i], reverse, 1) :
            Called(IF reverse THEN "latest" ELSE "earliest", i, [n |-> 1], tables[i], res)

\* the rows of the first table: two instants of one series
FirstRows ==
    SetToBag({[sid |-> Some(1), grp |-> Some(1), ts |-> Some(t), x |-> Some(7)] : t \in Instants})

\* the first TSDF is constructed over columns sid, grp, ts, x with one or two series ids
InitTables ==
    /\ left = Table(EmptyBag)
    /\ right = Table(EmptyBag)
    /\ args = DefaultArgs
    /\ env = LargeEnv
    /\ pc = "tables"
    /\ strategy = "none"
    /\ result = [kind |-> "none"]
    /\ df = NoDF
    /\ ops = <<>>
    /\ warnings = EmptyBag
    /\ \E ids \in {<<"sid">>, <<"sid", "grp">>} :
          tables = <<TSDF(Names, FirstRows, "ts", ids, "bigint").tsdf>>
    /\ call = NoCall

NextTables ==
    \/ Select
    \/ WithColumn
    \/ WithColumnRenamed
    \/ Union
    \/ UnionByName
    \/ Slice
    \/ Between
    \/ TopRows

SpecTables == InitTables /\ [][NextTables]_vars

-----------------------------------------------------------------------------
(* What the claims speak of *)

Returned == pc = "done" /\ result.kind = "tsdf"

\* the rows of the returned Table
OutRows == BagToSet(result.tsdf.rows)

\* the name a non-series column of the left / right table has in the result
LeftName(c) ==
    IF args.left_prefix = NONE \/ args.left_prefix = "" THEN c
    ELSE PrefixedName(args.left_prefix, c)
RightName(c) ==
    IF args.right_prefix = NONE \/ args.right_prefix = "" THEN c
    ELSE PrefixedName(args.right_prefix, c)

\* the non-series columns of the right table
RightCols == right.cols \ Range(right.series_ids)

\* a left row as it should appear in the result, right-hand columns aside
AsLeftPart(row) ==
    [c \in {IF k \in Range(left.series_ids) THEN k ELSE LeftName(k) : k \in DOMAIN row}
        |-> LET k == CHOOSE k \in DOMAIN row :
                        c = (IF k \in Range(left.series_ids) THEN k ELSE LeftName(k))
            IN row[k]]

\* the left-hand part of a row of the result
LeftPartOf(o) == [c \in DOMAIN AsLeftPart([k \in left.cols |-> NULL]) |-> o[c]]

\* every left row is in the result exactly as often as in the left table
LeftRowsKept ==
    LET Part == [o \in BagToSet(result.tsdf.rows) |-> LeftPartOf(o)]
        Shown == [row \in BagToSet(left.rows) |-> AsLeftPart(row)]
    IN MapBag(Part, result.tsdf.rows) = MapBag(Shown, left.rows)

SameSeries(o, r) == \A i \in DOMAIN left.series_ids : o[left.series_ids[i]] = r[left.series_ids[i]]

\* the right rows of o's series at or before o's timestamp
RightAtOrBefore(o) ==
    {r \in BagToSet(right.rows) :
        SameSeries(o, r) /\ r[right.ts_col][1] <= o[LeftName(left.ts_col)][1]}

\* the latest rows of a set of right rows
Latest(rs) == {r \in rs : \A q \in rs : q[right.ts_col][1] <= r[right.ts_col][1]}

\* the values column c may take from the latest right row with a non-null c
CarriedForward(o, c) ==
    LET known == {r \in RightAtOrBefore(o) : ~IsNull(r[c])}
    IN IF known = {} THEN {NULL} ELSE {r[c] : r \in Latest(known)}

\* C1: a standard join that skips nulls returns every left row, and gives it in each
\* right-hand column the value of the latest right row of its series at or before
\* its timestamp that has a value there, null if there is none
C1_CarryForward ==
    (pc = "done" /\ strategy = "standard" /\ args.skipNulls) =>
        /\ result.kind = "tsdf"
        /\ LeftRowsKept
        /\ \A o \in OutRows : \A c \in RightCols :
              o[RightName(c)] \in CarriedForward(o, c)

\* a returned row took x from an earlier right row than the latest one, whose x is null
C1_Witness ==
    /\ Returned /\ strategy = "standard" /\ args.skipNulls
    /\ \E o \in OutRows :
          /\ ~IsNull(o[RightName("x")])
          /\ \A r \in RightAtOrBefore(o) :
                r[right.ts_col] = o[RightName(right.ts_col)] => IsNull(r["x"])

\* C3: left rows that share series id and timestamp are all returned, and all of
\* them carry the same value in every right-hand column
C3_DuplicatesAgree ==
    (pc = "done" /\ strategy = "standard") =>
        /\ result.kind = "tsdf"
        /\ LeftRowsKept
        /\ \A o1, o2 \in OutRows :
              (SameSeries(o1, o2) /\ o1[LeftName(left.ts_col)] = o2[LeftName(left.ts_col)])
              => \A c \in RightCols : o1[RightName(c)] = o2[RightName(c)]

\* two left rows of one series and timestamp were returned with a value carried
\* forward from a right row of that very timestamp
C3_Witness ==
    /\ Returned /\ strategy = "standard"
    /\ BagCardinality(result.tsdf.rows) >= 2
    /\ \E o \in OutRows :
          /\ \E q \in BagToSet(left.rows) :
                q # LeftPartOf(o) /\ SameSeries(q, o) /\ q[left.ts_col] = o[LeftName(left.ts_col)]
          /\ o[RightName(right.ts_col)] = o[LeftName(left.ts_col)]
          /\ ~IsNull(o[RightName("x")])

\* the rows of the joined table with o's series id and timestamp
SameInstant(o) ==
    {r \in BagToSet(left.rows) : SameSeries(o, r) /\ r[left.ts_col] = o[LeftName(left.ts_col)]}

\* C8 as claimed: in a self join every row's right-hand columns equal its own columns
C8_SelfJoinIdentity ==
    (Returned /\ right = left) =>
        \A o \in OutRows : \A c \in RightCols : o[RightName(c)] = o[LeftName(c)]

\* C8 amended: in a self join every row's right-hand timestamp is its own timestamp,
\* and its right-hand value of c is its own value of c when no row of the same series
\* and timestamp has another value of c and, if nulls are skipped, its c is not null
C8_SelfJoinAmended ==
    (pc = "done" /\ strategy = "standard" /\ right = left) =>
        /\ result.kind = "tsdf"
        /\ \A o \in OutRows :
              /\ o[RightName(right.ts_col)] = o[LeftName(left.ts_col)]
              /\ \A c \in RightCols :
                    ( /\ \A r \in SameInstant(o) : r[c] = o[LeftName(c)]
                      /\ (args.skipNulls => ~IsNull(o[LeftName(c)])) )
                    => o[RightName(c)] = o[LeftName(c)]

\* a self join returned a row with its own value although an earlier row of its
\* series has another one
C8_Witness ==
    /\ Returned /\ strategy = "standard" /\ right = left
    /\ \E o \in OutRows :
          /\ ~IsNull(o[LeftName("x")]) /\ o[RightName("x")] = o[LeftName("x")]
          /\ \E r \in BagToSet(left.rows) :
                /\ SameSeries(o, r) /\ r["ts"][1] < o[LeftName("ts")][1]
                /\ ~IsNull(r["x"]) /\ r["x"] # o[LeftName("x")]

\* the calls this model makes that asOfJoin is documented to reject
Rejected ==
    \/ validateTsColMatch(left, right)
    \/ left.series_ids # right.series_ids
    \/ (~args.skipNulls /\ ~IsNull(args.tsPartitionVal))

\* the row bags a standard join of the same tables with the same arguments may build
StandardRows ==
    {o.df.rows : o \in standardAsOfJoin(left, right, args.left_prefix, args.right_prefix,
                                        args.skipNulls, args.suppress_null_warning,
                                        env.warning_enabled)}

\* C2: the standard and the skew join return a Table with every left row exactly as
\* often as the left table has it, and no other row
C2_LeftRowsKept ==
    (pc = "done" /\ strategy \in {"standard", "skew"} /\ ~Rejected) =>
        (result.kind = "tsdf" /\ LeftRowsKept)

\* C4: whatever the method, a join with a right table without rows returns every
\* left row unchanged with every right-hand column null
C4_EmptyRight ==
    (pc = "done" /\ right.rows = EmptyBag /\ ~Rejected) =>
        /\ result.kind = "tsdf"
        /\ LeftRowsKept
        /\ \A o \in OutRows : \A c \in RightCols : IsNull(o[RightName(c)])

\* C5: a broadcast join returns the rows a standard join of the same tables returns
C5_BroadcastAsStandard ==
    (pc = "done" /\ strategy = "broadcast") =>
        (result.kind = "tsdf" /\ result.tsdf.rows \in StandardRows)

\* the overlap the caller asked for spans every gap between consecutive right-hand
\* timestamps of a series
OverlapSpansGaps ==
    \A r1, r2 \in BagToSet(right.rows) :
        ( /\ SameSeries(r1, r2) /\ r1["ts"][1] < r2["ts"][1]
          /\ ~\E q \in BagToSet(right.rows) :
                 SameSeries(r1, q) /\ r1["ts"][1] < q["ts"][1] /\ q["ts"][1] < r2["ts"][1] )
        => (r2["ts"][1] - r1["ts"][1]) * 100 <= args.fraction * args.tsPartitionVal[1]

\* C6: with an overlap that spans the gaps of the right table, the rows the skew join
\* builds are rows the standard join builds
C6_SkewAsStandard ==
    (pc = "done" /\ strategy = "skew" /\ args.skipNulls /\ OverlapSpansGaps) =>
        df.rows \in StandardRows

\* C7: a left row at a bracket boundary gets from the skew join, whatever the
\* positive overlap fraction, a row the standard join builds for it
C7_BoundaryAsStandard ==
    (pc = "done" /\ strategy = "skew" /\ args.skipNulls /\ args.fraction > 0) =>
        \A o \in BagToSet(df.rows) :
            o[LeftName(left.ts_col)][1] % args.tsPartitionVal[1] = 0
            => \E rows \in StandardRows : o \in BagToSet(rows)

\* the join method the arguments and the plan sizes select
Selected ==
    IF args.sql_join_opt /\ (env.left_bytes < bytes_threshold
                             \/ env.right_bytes < bytes_threshold)
    THEN "broadcast"
    ELSE IF ~IsNull(args.tsPartitionVal) THEN "skew" ELSE "standard"

\* C9: a call that passes validation runs the one method selected and returns a Table
C9_OneStrategy ==
    (pc = "done" /\ ~Rejected) => (strategy = Selected /\ result.kind = "tsdf")

\* C10: a call on tables whose series-id lists differ in length, in a name or in
\* order raises the error of an incompatible pair and returns no Table
C10_SeriesIdsChecked ==
    (pc = "done" /\ left.series_ids # right.series_ids) =>
        (strategy = "none" /\ result.kind = "error" /\ result.error = "ValueError")

\* the Spark operations that estimate a size, union, partition, scan a window or
\* materialize rows
JoinWork ==
    {"explain.collect", "unionByName", "union", "cache", "window", "orderBy.show",
     "agg.collect"}

\* C11: a call on tables that disagree on their series ids or on the type of their
\* time column raises, returns no Table and has issued none of the join's work
C11_FailsBeforeWork ==
    (pc = "done" /\ (left.series_ids # right.series_ids \/ left.ts_type # right.ts_type)) =>
        (result.kind = "error" /\ Range(ops) \cap JoinWork = {})

\* C12: a call without null skipping that selects the skew join raises, returns no
\* Table and has issued no union, partitioning, ordering or materialization
C12_SkewNoSkipFailsFast ==
    (pc = "done" /\ strategy = "skew" /\ ~args.skipNulls) =>
        ( /\ result.kind = "error"
          /\ Range(ops) \cap {"unionByName", "union", "cache", "window", "orderBy.show"} = {} )

\* C13: a skew join asked for with an overlap fraction outside the open interval
\* (0, 1) raises and has built no joined DataFrame
C13_FractionRangeChecked ==
    (pc = "done" /\ strategy = "skew" /\ (args.fraction <= 0 \/ args.fraction >= 100)) =>
        (result.kind = "error" /\ df = NoDF)

\* the row bags a skew join with the overlap fraction of the call may build
RowsWithCallersFraction ==
    {o.df.rows : o \in skewAsOfJoin(left, right, args.left_prefix, args.right_prefix,
                                    args.tsPartitionVal, args.fraction, args.skipNulls,
                                    args.suppress_null_warning, env.warning_enabled)}

\* C14: the rows a skew join builds are those its partitioning gives with the overlap
\* fraction the caller passed to asOfJoin
C14_CallersFraction ==
    (pc = "done" /\ strategy = "skew" /\ args.fraction \in 1..99) =>
        df.rows \in RowsWithCallersFraction

\* the columns outside the series ids that both tables have
SharedCols == (left.cols \cap right.cols) \ (Range(left.series_ids) \cup Range(right.series_ids))

Receiver == call.before
Outcome == call.result

C17_WithColumn ==
    (call.op = "withColumn") =>
        IF call.args.colName \in {Receiver.ts_col} \cup Range(Receiver.series_ids)
        THEN /\ Outcome = Err("TSDFStructureChangeError", "withColumn")
             /\ tables[call.self] = Receiver
        ELSE /\ Outcome.kind = "tsdf"
             /\ Outcome.tsdf.ts_col = Receiver.ts_col
             /\ Outcome.tsdf.series_ids = Receiver.series_ids

\* withColumn on the name of a series id was refused
C17_Witness ==
    /\ call.op = "withColumn"
    /\ call.args.colName \in Range(Receiver.series_ids)
    /\ Outcome = Err("TSDFStructureChangeError", "withColumn")
    /\ tables[call.self] = Receiver

\* the rows of table t whose cell in column col is not null and compares as op with
\* ts, as often as t has them
RowsWhere(t, col, op, ts) ==
    LET Keep == [row \in BagToSet(t.rows) |->
                    IF IsNull(row[col]) THEN FALSE ELSE Compare(op, row[col][1], ts)]
    IN FilterBag(Keep, t.rows)

\* the series ids of table t are columns of t, each named once
SeriesIdsSound(t) ==
    /\ Range(t.series_ids) \subseteq t.cols
    /\ Cardinality(Range(t.series_ids)) = Len(t.series_ids)

\* C18: the rename of the time column or of a series id of a TSDF, whose series ids
\* are columns named once each, returns a TSDF; a TSDF returned names the new column
\* where the receiver named the old one, has all its structural columns, and is
\* sliced on the new name of its time column
C18_RenameStructural ==
    ( /\ call.op = "withColumnRenamed"
      /\ call.args.existing \in {Receiver.ts_col} \cup Range(Receiver.series_ids) ) =>
        /\ SeriesIdsSound(Receiver) => Outcome.kind = "tsdf"
        /\ Outcome.kind = "tsdf" =>
              LET t2 == Outcome.tsdf
                  Moved(name) == IF name = call.args.existing THEN call.args.new ELSE name
              IN /\ t2.ts_col = Moved(Receiver.ts_col)
                 /\ t2.series_ids = [i \in DOMAIN Receiver.series_ids |->
                                        Moved(Receiver.series_ids[i])]
                 /\ ({t2.ts_col} \cup Range(t2.series_ids)) \subseteq t2.cols
                 /\ \A op \in SliceOps, ts \in Instants :
                       slice(t2, op, ts) =
                           Ok([t2 EXCEPT !.rows = RowsWhere(t2, Moved(Receiver.ts_col), op, ts)])

\* the time column was renamed, and a slice of the TSDF returned keeps some of its
\* rows and drops others
C18_Witness ==
    /\ call.op = "withColumnRenamed"
    /\ call.args.existing = Receiver.ts_col
    /\ Outcome.kind = "tsdf"
    /\ Outcome.tsdf.ts_col = call.args.new
    /\ \E ts \in Instants :
          LET kept == slice(Outcome.tsdf, "<", ts)
          IN kept.kind = "tsdf" /\ kept.tsdf.rows # EmptyBag
             /\ kept.tsdf.rows # Outcome.tsdf.rows

\* C19: a call of a transformation leaves its receiver with the series ids, the time
\* index and the DataFrame it had
C19_ReceiverUnchanged ==
    (call.op # "none") => tables[call.self] = Receiver

\* C20: every TSDF in existence has its time column and its series ids among the
\* columns of its DataFrame
C20_SchemaValid ==
    \A i \in DOMAIN tables :
        ({tables[i].ts_col} \cup Range(tables[i].series_ids)) \subseteq tables[i].cols

\* C21: a standard join has one result: whatever order the rows of the two tables
\* are held in, it returns the same Table
C21_Deterministic ==
    (pc = "done" /\ strategy = "standard") =>
        \A o \in asOfJoin(left, right, args, env) : o.res = result

-----------------------------------------------------------------------------
(* Time partitioning on its own *)

MaxPart == 2     \* rows of a table that is partitioned

\* timestamps on both sides of zero and of the boundaries of brackets of width 10
PartTimes == {-11, -10, -9, -1, 0, 1, 9, 10, 11}

PartTables == {Table(b) : b \in BagsUpTo(RowsOver(PartTimes, LeftValues), MaxPart)}

\* tables to partition, with a width and an overlap fraction in (0, 1)
InitPart ==
    /\ left \in PartTables
    /\ right = Table(EmptyBag)
    /\ args \in {[DefaultArgs EXCEPT !.tsPartitionVal = Some(w), !.fraction = f] :
                    w \in Widths, f \in {10, 50}}
    /\ env = LargeEnv
    /\ NotCalled

\* one call left.__getTimePartitions(tsPartitionVal, fraction)
GetTimePartitions ==
    /\ pc = "ready"
    /\ result' = getTimePartitions(left, args.tsPartitionVal[1], args.fraction)
    /\ df' = [cols |-> result'.tsdf.cols, rows |-> result'.tsdf.rows]
    /\ ops' = <<"withColumn", "cache", "filter", "union", "drop">>
    /\ pc' = "done"
    /\ UNCHANGED <<left, right, args, env, strategy, warnings, tables, call>>

NextPart == GetTimePartitions

SpecPart == InitPart /\ [][NextPart]_vars

\* the width and the overlap fraction (in percent) of the call
Width == args.tsPartitionVal[1]

\* C22: time partitioning gives every row the bracket that holds its timestamp,
\* ts_partition <= ts < ts_partition + width, so that its remainder is in [0, 1)
C22_BucketHoldsTime ==
    (pc = "done" /\ result.kind = "tsdf" /\ "is_original" \in result.tsdf.cols) =>
        \A o \in OutRows :
            o["is_original"] = Some(1) =>
                /\ o["ts_partition"][1] <= o["ts"][1]
                /\ o["ts"][1] < o["ts_partition"][1] + Width
                /\ o["ts_partition"][1] = Width * (o["ts"][1] \div Width)

\* the bracket of a timestamp as partitionWidth * floor(time / partitionWidth)
FloorBucket(ts) == Width * (ts \div Width)

\* the rows of the left table, each once in its bracket as an original and those in
\* the last fraction of their bracket once more in the next bracket as a copy
PartitionedAsSpecified ==
    LET Original == [row \in BagToSet(left.rows) |->
                        RowWith(RowWith(row, "ts_partition", Some(FloorBucket(row["ts"][1]))),
                                "is_original", Some(1))]
        Late == [row \in BagToSet(left.rows) |->
                    (row["ts"][1] - FloorBucket(row["ts"][1])) * 100
                        >= (100 - args.fraction) * Width]
        Copy == [row \in BagToSet(left.rows) |->
                    RowWith(RowWith(row, "ts_partition",
                                    Some(FloorBucket(row["ts"][1]) + Width)),
                            "is_original", Some(0))]
    IN MapBag(Original, left.rows) (+) MapBag(Copy, FilterBag(Late, left.rows))

\* C23: time partitioning returns each row once as an original in its bracket and
\* the rows whose remainder is at least 1 - fraction once more in the next bracket
C23_OriginalsAndCopies ==
    (pc = "done" /\ result.kind = "tsdf" /\ "is_original" \in result.tsdf.cols) =>
        result.tsdf.rows = PartitionedAsSpecified

\* C24: the skew join returns a Table without the columns ts_partition and
\* is_original, with the series ids of the left table, all of them its columns
C24_SkewResultShape ==
    (pc = "done" /\ strategy = "skew" /\ ~Rejected) =>
        /\ result.kind = "tsdf"
        /\ result.tsdf.cols \cap {"ts_partition", "is_original"} = {}
        /\ result.tsdf.series_ids = left.series_ids
        /\ validate(result.tsdf.cols, result.tsdf.ts_col, result.tsdf.series_ids)

\* the right rows of o's series from which the skew join may carry a value to o:
\* not later than o, and not earlier than the overlap before o's bracket
InLookback(o) ==
    LET t == o[LeftName(left.ts_col)][1]
        b == Width * (t \div Width)
    IN {r \in RightAtOrBefore(o) :
           r[right.ts_col][1] * 100 >= b * 100 - SkewDefaultFraction * Width}

\* the values column c may take from the latest right row in the lookback of o with
\* a non-null c
CarriedInLookback(o, c) ==
    LET known == {r \in InLookback(o) : ~IsNull(r[c])}
    IN IF known = {} THEN {NULL} ELSE {r[c] : r \in Latest(known)}

\* the rows have in each right-hand column the last non-null value of the lookback
LookbackRows(rows) ==
    \A o \in BagToSet(rows) : \A c \in RightCols :
        o[RightName(c)] \in CarriedInLookback(o, c)

\* C25: the skew join returns every left row with, in each right-hand column, the
\* last non-null value among the right rows of its series between the overlap before
\* its bracket and its own timestamp, null if there is none
C25_SkewLookback ==
    (pc = "done" /\ strategy = "skew" /\ args.skipNulls) =>
        (result.kind = "tsdf" /\ LookbackRows(result.tsdf.rows))

\* how often the result has a row whose left-hand part is the left row q
TimesJoined(q) ==
    LET IsQ == [o \in BagToSet(result.tsdf.rows) |-> LeftPartOf(o) = AsLeftPart(q)]
    IN BagCardinality(FilterBag(IsQ, result.tsdf.rows))

\* C26: the broadcast join returns a Table in which every left row is joined to at
\* most one right row: it is there at most as often as the left table has it
C26_BroadcastOneMatch ==
    (pc = "done" /\ strategy = "broadcast") =>
        /\ result.kind = "tsdf"
        /\ \A q \in BagToSet(left.rows) : TimesJoined(q) <= left.rows[q]

-----------------------------------------------------------------------------
(* The join with a right table whose time index has a sub-sequence *)

SubSeqs == {1, 2}

SubRows ==
    {[sid |-> Some(s), rts |-> Some(t), seq |-> Some(q), y |-> v] :
        s \in Sids, t \in {1, 2}, q \in SubSeqs, v \in RightValues}

\* a TSDF over columns sid, rts, seq, y with series id sid and a SubSequenceTSIndex
\* of timestamp rts and sub-sequence seq
SubTable(rows) ==
    [cols |-> {"sid", "rts", "seq", "y"}, rows |-> rows, ts_col |-> "rts",
     sub_seq_col |-> "seq", series_ids |-> <<"sid">>, ts_type |-> "bigint"]

SubRightTables == {SubTable(b) : b \in BagsUpTo(SubRows, MaxRight)}

\* the standard join of a table with a simple time index to a table with a
\* sub-sequence, no column of one named as a column of the other but the series id
InitSub ==
    /\ left \in LeftTables
    /\ right \in SubRightTables
    /\ args \in {[DefaultArgs EXCEPT !.right_prefix = NONE, !.skipNulls = b] :
                    b \in BOOLEAN}
    /\ env = LargeEnv
    /\ NotCalled

SpecSub == InitSub /\ [][Next]_vars

\* the right rows that come last in the order (timestamp, sub-sequence)
LatestBySubSeq(rs) ==
    {r \in rs : \A q \in rs :
        \/ q["rts"][1] < r["rts"][1]
        \/ (q["rts"][1] = r["rts"][1] /\ q["seq"][1] <= r["seq"][1])}

\* the values column c may take from the last right row, in the order (timestamp,
\* sub-sequence), that is at or before o and, if nulls are skipped, has a value of c
CarriedBySubSeq(o, c) ==
    LET known == {r \in RightAtOrBefore(o) : args.skipNulls => ~IsNull(r[c])}
    IN IF known = {} THEN {NULL} ELSE {r[c] : r \in LatestBySubSeq(known)}

\* C27: when the right table has a sub-sequence, right rows of one series and one
\* timestamp are taken in the order of their sub-sequence: a left row gets its value
\* from the one that is last in the order (timestamp, sub-sequence)
C27_SubSeqOrders ==
    (pc = "done" /\ strategy = "standard" /\ HasSubSeq(right)) =>
        /\ result.kind = "tsdf"
        /\ \A o \in OutRows : o["y"] \in CarriedBySubSeq(o, "y")

\* C28: a standard join that does not skip nulls gives every left row, in all its
\* right-hand columns, the values of one right row, a latest one of its series at or
\* before its timestamp, nulls included, and nulls if there is no such row; a join
\* that skips nulls looks each column back to its own last value
C28_NoSkipTakesLatestRow ==
    (pc = "done" /\ strategy = "standard" /\ ~HasSubSeq(right)) =>
        /\ result.kind = "tsdf"
        /\ LeftRowsKept
        /\ \A o \in OutRows :
              IF args.skipNulls
              THEN \A c \in RightCols : o[RightName(c)] \in CarriedForward(o, c)
              ELSE IF RightAtOrBefore(o) = {}
              THEN \A c \in RightCols : IsNull(o[RightName(c)])
              ELSE \E r \in Latest(RightAtOrBefore(o)) :
                      \A c \in RightCols : o[RightName(c)] = r[c]

\* without null skipping a returned row has the timestamp of a right row and a null
\* in x, although an earlier right row of its series has a value of x
C28_Witness ==
    /\ Returned /\ strategy = "standard" /\ ~args.skipNulls
    /\ \E o \in OutRows :
          /\ ~IsNull(o[RightName(right.ts_col)])
          /\ IsNull(o[RightName("x")])
          /\ \E r \in RightAtOrBefore(o) :
                ~IsNull(r["x"]) /\ r[right.ts_col][1] < o[RightName(right.ts_col)][1]

-----------------------------------------------------------------------------
(* The lookback diagnostic of the skew join *)

\* skew joins that skip nulls, with the null warning suppressed or not and the
\* logger enabled for WARNING or not
InitWarn ==
    /\ left \in SkewLeftTables
    /\ right \in SkewRightTables
    /\ args \in {[DefaultArgs EXCEPT !.tsPartitionVal = Some(w),
                                     !.suppress_null_warning = s] :
                    w \in Widths, s \in BOOLEAN}
    /\ env \in {[LargeEnv EXCEPT !.warning_enabled = e] : e \in BOOLEAN}
    /\ NotCalled

SpecWarn == InitWarn /\ [][Next]_vars

\* the warning of the lookback diagnostic about the right-hand column c
LookbackWarning(c) == "no values in lookback window: " \o RightName(c)

\* some left row has no right row with a value of c in its lookback
SomeLeftRowWithout(c) ==
    \E q \in BagToSet(left.rows) :
        \A r \in InLookback(AsLeftPart(q)) : IsNull(r[c])

\* the diagnostic is asked for: not suppressed, and the logger takes warnings
Diagnosed == ~args.suppress_null_warning /\ env.warning_enabled

\* C29: the lookback diagnostic of the skew join logs one warning for a right-hand
\* column exactly when it is asked for and some left row has no value of the column
\* in its lookback; when it is not asked for nothing is collected; the count columns
\* are not in the DataFrame the join builds
C29_LookbackDiagnostic ==
    (pc = "done" /\ strategy = "skew" /\ args.skipNulls) =>
        /\ \A c \in RightCols :
              /\ BagIn(LookbackWarning(c), warnings) <=> (Diagnosed /\ SomeLeftRowWithout(c))
              /\ CopiesIn(LookbackWarning(c), warnings) <= 1
        /\ ~Diagnosed => \A i \in DOMAIN ops : ops[i] # "agg.collect"
        /\ \A c \in df.cols : \A rc \in RightCols : c # CountCol(RightName(rc))

-----------------------------------------------------------------------------
(* earliest, latest, priorTo and subsequentTo *)

MaxTop == 3      \* rows of a table whose first or last rows are selected

\* TSDF.earliest
earliest(t, n) == top_rows_per_series(t, FALSE, n)

\* TSDF.latest
latest(t, n) == top_rows_per_series(t, TRUE, n)

\* TSDF.priorTo: every outcome
priorTo(t, ts, n) ==
    LET sliced == slice(t, "<=", ts)
    IN IF sliced.kind = "error" THEN {sliced} ELSE latest(sliced.tsdf, n)

\* TSDF.subsequentTo: every outcome
subsequentTo(t, ts, n) ==
    LET sliced == slice(t, ">=", ts)
    IN IF sliced.kind = "error" THEN {sliced} ELSE earliest(sliced.tsdf, n)

TopValues == {Some("a"), Some("b")}
TopNs == {1, 2, 3}
TopInstants == {2}

TopTables == {Table(b) : b \in BagsUpTo(RowsOver(Times, TopValues), MaxTop)}

\* a table of up to MaxTop rows of two series, rows of one instant among them
InitTop ==
    /\ left \in TopTables
    /\ right = Table(EmptyBag)
    /\ args = DefaultArgs
    /\ env = LargeEnv
    /\ NotCalled

\* a call of op on the table left with arguments a returned res
TopCalled(op, a, res) ==
    /\ pc = "ready"
    /\ call' = [op |-> op, self |-> 0, args |-> a, before |-> left, result |-> res]
    /\ pc' = "done"
    /\ UNCHANGED <<left, right, args, env, strategy, result, df, ops, warnings, tables>>

Earliest ==
    \E n \in TopNs : \E res \in earliest(left, n) :
        TopCalled("earliest", [n |-> n, ts |-> 0], res)

LatestRows ==
    \E n \in TopNs : \E res \in latest(left, n) :
        TopCalled("latest", [n |-> n, ts |-> 0], res)

PriorTo ==
    \E n \in TopNs, ts \in TopInstants : \E res \in priorTo(left, ts, n) :
        TopCalled("priorTo", [n |-> n, ts |-> ts], res)

SubsequentTo ==
    \E n \in TopNs, ts \in TopInstants : \E res \in subsequentTo(left, ts, n) :
        TopCalled("subsequentTo", [n |-> n, ts |-> ts], res)

NextTop == Earliest \/ LatestRows \/ PriorTo \/ SubsequentTo

SpecTop == InitTop /\ [][NextTop]_vars

\* the rows the call selects from: all rows of the receiver, or those at or before,
\* at or after, the instant of priorTo, subsequentTo
Eligible ==
    LET Keep == [row \in BagToSet(Receiver.rows) |->
                    CASE call.op = "priorTo" -> row[Receiver.ts_col][1] <= call.args.ts
                      [] call.op = "subsequentTo" -> row[Receiver.ts_col][1] >= call.args.ts
                      [] OTHER -> TRUE]
    IN FilterBag(Keep, Receiver.rows)

\* the rows of bag B that are of the series of row q
OfSeries(B, q) ==
    LET Same == [row \in BagToSet(B) |->
                    \A i \in DOMAIN Receiver.series_ids :
                        row[Receiver.series_ids[i]] = q[Receiver.series_ids[i]]]
    IN FilterBag(Same, B)

\* the call goes forward in time: it keeps the first rows, not the last
Forward == call.op \in {"earliest", "subsequentTo"}

\* C30: earliest(n) and latest(n) return the receiver's schema over, for each series,
\* min(n, size) of its rows, none of them after (before) a row of the series that is
\* left out; priorTo and subsequentTo do so over the rows at or before, at or after,
\* their instant
C30_TopRows ==
    (call.op \in {"earliest", "latest", "priorTo", "subsequentTo"}) =>
        /\ Outcome.kind = "tsdf"
        /\ [Outcome.tsdf EXCEPT !.rows = Receiver.rows] = Receiver
        /\ Outcome.tsdf.rows \sqsubseteq Eligible
        /\ \A q \in BagToSet(Eligible) :
              LET kept == OfSeries(Outcome.tsdf.rows, q)
                  dropped == OfSeries(Eligible (-) Outcome.tsdf.rows, q)
              IN /\ BagCardinality(kept)
                       = Min(call.args.n, BagCardinality(OfSeries(Eligible, q)))
                 /\ \A k \in BagToSet(kept), d \in BagToSet(dropped) :
                       IF Forward THEN k["ts"][1] <= d["ts"][1]
                       ELSE k["ts"][1] >= d["ts"][1]

\* priorTo kept the last row at or before its instant of a series that has an
\* earlier row and a later row as well
C30_Witness ==
    /\ call.op = "priorTo" /\ Outcome.kind = "tsdf"
    /\ \E k \in BagToSet(Outcome.tsdf.rows) :
          /\ BagCardinality(OfSeries(Outcome.tsdf.rows, k)) = 1
          /\ \E d \in BagToSet(OfSeries(Receiver.rows, k)) : d["ts"][1] < k["ts"][1]
          /\ \E d \in BagToSet(OfSeries(Receiver.rows, k)) : d["ts"][1] > call.args.ts

====
